---- MODULE Spec2Model ----
(***************************************************************************)
(* Model of Main.py: the Streamlit workout logger that keeps its data in   *)
(* workout_data.csv inside a GitHub repository.                            *)
(*                                                                         *)
(*   - remote    the CSV file in the repository (absent, or header + rows) *)
(*   - sess      one record per browser session: the position of the       *)
(*               current script run and the module-level DataFrame df      *)
(*   - mHist     a DataFrame and the results of successive calls of        *)
(*               calcular_metricas on it (specification SpecMetrics)       *)
(*                                                                         *)
(* Numbers are exact: a float is a fraction [n, d] in lowest terms with    *)
(* d > 0, and the IEEE specials are NaN = 0/0, +inf = 1/0, -inf = -1/0.    *)
(***************************************************************************)
EXTENDS Integers, Sequences, FiniteSets, TLC

VARIABLES remote, sess, mHist

vars == <<remote, sess, mHist>>

(***************************************************************************)
(* Bounds of the model.                                                    *)
(***************************************************************************)
MaxInitRows == 1

MaxLen == 3

NumSessions == 2

(***************************************************************************)
(* Columns.                                                                *)
(***************************************************************************)
RawCols == <<"Fecha", "Ejercicio", "Peso (kg)", "Repeticiones", "RPE", "Notas">>

DerivedCols == <<"Volumen", "1RM", "Intensidad", "Progreso">>

Range(s) == {s[i] : i \in DOMAIN s}

\* A DataFrame: ordered column labels and, per row, a value for each label.
DataFrame(cols, rows) == [columns |-> cols, rows |-> rows]

\* pd.DataFrame(columns=[...]) : no rows, the six raw columns
EmptyDataFrame == DataFrame(RawCols, <<>>)

Row(fecha, ejercicio, peso, reps, rpe, notas) ==
    [c \in Range(RawCols) |->
        CASE c = "Fecha" -> fecha
          [] c = "Ejercicio" -> ejercicio
          [] c = "Peso (kg)" -> peso
          [] c = "Repeticiones" -> reps
          [] c = "RPE" -> rpe
          [] OTHER -> notas]

\* The raw columns of a row, whatever other columns it carries.
RawPart(r) == [c \in Range(RawCols) |-> r[c]]

RawRows(df) == [i \in DOMAIN df.rows |-> RawPart(df.rows[i])]

(***************************************************************************)
(* Float arithmetic as pandas/numpy perform it (no exception on division   *)
(* by zero: x/0 is +-inf, 0/0 is NaN).                                     *)
(***************************************************************************)
Abs(x) == IF x < 0 THEN -x ELSE x

RECURSIVE GCD(_, _)
GCD(a, b) == IF b = 0 THEN a ELSE GCD(b, a % b)

NaN == [n |-> 0, d |-> 0]

Inf == [n |-> 1, d |-> 0]

NegInf == [n |-> -1, d |-> 0]

IsNaN(x) == x.n = 0 /\ x.d = 0

IsFinite(x) == x.d > 0

Sign(k) == IF k > 0 THEN 1 ELSE IF k < 0 THEN -1 ELSE 0

\* the float n/d, d # 0
Frac(n, d) ==
    LET g == GCD(Abs(n), Abs(d))
        s == IF d < 0 THEN -1 ELSE 1
    IN  [n |-> (s * n) \div g, d |-> (s * d) \div g]

Num(k) == [n |-> k, d |-> 1]

FDiv(x, y) ==
    IF IsNaN(x) \/ IsNaN(y) THEN NaN
    ELSE IF ~IsFinite(x)
         THEN IF ~IsFinite(y) THEN NaN
              ELSE [n |-> x.n * (IF y.n < 0 THEN -1 ELSE 1), d |-> 0]
    ELSE IF ~IsFinite(y) THEN Num(0)
    ELSE IF y.n = 0
         THEN IF x.n = 0 THEN NaN ELSE [n |-> Sign(x.n), d |-> 0]
    ELSE Frac(x.n * y.d, x.d * y.n)

FSub(x, y) ==
    IF IsNaN(x) \/ IsNaN(y) THEN NaN
    ELSE IF ~IsFinite(x)
         THEN IF ~IsFinite(y) /\ x.n = y.n THEN NaN ELSE x
    ELSE IF ~IsFinite(y) THEN [n |-> -y.n, d |-> 0]
    ELSE Frac(x.n * y.d - y.n * x.d, x.d * y.d)

FAdd(x, y) == FSub(x, FSub(Num(0), y))

FMul(x, y) ==
    IF IsNaN(x) \/ IsNaN(y) THEN NaN
    ELSE IF ~IsFinite(x) \/ ~IsFinite(y)
         THEN IF x.n = 0 \/ y.n = 0 THEN NaN
              ELSE [n |-> Sign(x.n) * Sign(y.n), d |-> 0]
    ELSE Frac(x.n * y.n, x.d * y.d)

(***************************************************************************)
(* calcular_metricas                                                       *)
(***************************************************************************)
EpleyDiv == 30

Percent == 100

\* variant: df['Volumen'] += ... on a frame that already has the column
VolumenAccum(df, i) ==
    (IF "Volumen" \in DOMAIN df.rows[i] THEN df.rows[i]["Volumen"] ELSE 0)
        + df.rows[i]["Peso (kg)"] * df.rows[i]["Repeticiones"]

\* df['Peso (kg)'] * df['Repeticiones']
Volumen(df, i) == df.rows[i]["Peso (kg)"] * df.rows[i]["Repeticiones"]

\* df['Peso (kg)'] * (1 + df['Repeticiones']/30)
OneRM(df, i) ==
    FMul(Num(df.rows[i]["Peso (kg)"]),
         FAdd(Num(1), FDiv(Num(df.rows[i]["Repeticiones"]), Num(EpleyDiv))))

\* the rows of i's group: groupby('Ejercicio')
Group(df, i) == {j \in DOMAIN df.rows : df.rows[j]["Ejercicio"] = df.rows[i]["Ejercicio"]}

SetMax(S) == CHOOSE m \in S : \A x \in S : x <= m

\* variant: df['Peso (kg)'].max(), the maximum over the whole frame
GroupMaxAll(df, i) == SetMax({df.rows[j]["Peso (kg)"] : j \in DOMAIN df.rows})

\* groupby('Ejercicio')['Peso (kg)'].transform('max')
GroupMax(df, i) == SetMax({df.rows[j]["Peso (kg)"] : j \in Group(df, i)})

\* df['Peso (kg)'] / group max
Intensidad(df, i) == FDiv(Num(df.rows[i]["Peso (kg)"]), Num(GroupMax(df, i)))

\* the row before i in i's group, in the order of the rows of the frame; 0 if none
PrevInGroup(df, i) ==
    LET before == {j \in Group(df, i) : j < i}
    IN  IF before = {} THEN 0 ELSE SetMax(before)

\* groupby('Ejercicio')['1RM'].pct_change() * 100
Progreso(df, i) ==
    LET p == PrevInGroup(df, i)
    IN  IF p = 0 THEN NaN
        ELSE FMul(FSub(FDiv(OneRM(df, i), OneRM(df, p)), Num(1)), Num(Percent))

\* assigning df[c] = ... adds c after the existing columns unless it is there
AssignCols(cols, new) == cols \o SelectSeq(new, LAMBDA c : c \notin Range(cols))

DerivedRow(df, i) ==
    [c \in DOMAIN df.rows[i] \cup Range(DerivedCols) |->
        CASE c = "Volumen" -> Volumen(df, i)
          [] c = "1RM" -> OneRM(df, i)
          [] c = "Intensidad" -> Intensidad(df, i)
          [] c = "Progreso" -> Progreso(df, i)
          [] OTHER -> df.rows[i][c]]

calcular_metricas(df) ==
    IF df.rows = <<>> THEN df
    ELSE DataFrame(AssignCols(df.columns, DerivedCols),
                   [i \in DOMAIN df.rows |-> DerivedRow(df, i)])

(***************************************************************************)
(* The CSV encoding: df.to_csv(index=False) and pd.read_csv followed by    *)
(* pd.to_datetime(df['Fecha']).  A date in memory is a day number, NaT is  *)
(* 0; a date in the file is text.  An empty cell reads back as NaN.        *)
(* Numeric cells are written and read back as the same number.            *)
(***************************************************************************)
DateText == <<"2024-01-01", "2024-01-08">>

NaT == 0

NotasNaN == "<NaN>"

FormatDate(d) == IF d = NaT THEN "" ELSE DateText[d]

Parseable(t) == t = "" \/ t \in Range(DateText)

ParseDate(t) == IF t = "" THEN NaT ELSE CHOOSE d \in DOMAIN DateText : DateText[d] = t

EncodeRow(r) ==
    [c \in DOMAIN r |->
        CASE c = "Fecha" -> FormatDate(r[c])
          [] c = "Notas" -> IF r[c] = NotasNaN THEN "" ELSE r[c]
          [] OTHER -> r[c]]

DecodeRow(t) ==
    [c \in DOMAIN t |->
        CASE c = "Fecha" -> ParseDate(t[c])
          [] c = "Notas" -> IF t[c] = "" THEN NotasNaN ELSE t[c]
          [] OTHER -> t[c]]

\* the file workout_data.csv does not exist
NoFile == [exists |-> FALSE, header |-> <<>>, rows |-> <<>>]

File(header, rows) == [exists |-> TRUE, header |-> header, rows |-> rows]

\* csv_content = df.to_csv(index=False): every column of df
ToCsv(df) == File(df.columns, [i \in DOMAIN df.rows |-> EncodeRow(df.rows[i])])

\* contents.sha is the hash of the blob: two files have the same sha exactly
\* when they have the same content
Sha(file) == file

(***************************************************************************)
(* The repository API.  Every call may fail (network, auth, rate limit):   *)
(* net is "ok" or "transient".                                             *)
(***************************************************************************)
Net == {"ok", "transient"}

\* repo.get_contents(CSV_PATH)
get_contents(file, net) ==
    IF net = "ok" /\ file.exists
    THEN [ok |-> TRUE, sha |-> Sha(file)]
    ELSE [ok |-> FALSE, sha |-> Sha(NoFile)]

\* repo.update_file(path, message, content, sha): rejected unless sha is the
\* sha of the file as it is now
update_file(file, content, sha, net) ==
    IF net = "ok" /\ file.exists /\ Sha(file) = sha
    THEN [ok |-> TRUE, file |-> content]
    ELSE [ok |-> FALSE, file |-> file]

\* repo.create_file(path, message, content): rejected if the file exists
create_file(file, content, net) ==
    IF net = "ok" /\ ~file.exists
    THEN [ok |-> TRUE, file |-> content]
    ELSE [ok |-> FALSE, file |-> file]

(***************************************************************************)
(* load_data_from_github: any exception gives the empty raw frame.         *)
(* error is the exception caught (shown by st.warning), contents the file  *)
(* that get_contents returned (a local of the function).                   *)
(***************************************************************************)
\* variant: the except branch returns pd.DataFrame(), a frame without columns
LoadFailedNoColumns(error, contents) ==
    [df |-> DataFrame(<<>>, <<>>), error |-> error, contents |-> contents]

LoadFailed(error, contents) ==
    [df |-> EmptyDataFrame, error |-> error, contents |-> contents]

load_data_from_github(file, net) ==
    IF net # "ok" THEN LoadFailed("Transient", NoFile)
    ELSE IF ~file.exists THEN LoadFailed("NotFound", NoFile)
    ELSE IF \E i \in DOMAIN file.rows : ~Parseable(file.rows[i]["Fecha"])
         THEN LoadFailed("Parse", file)
    ELSE [df |-> DataFrame(file.header, [i \in DOMAIN file.rows |-> DecodeRow(file.rows[i])]),
          error |-> "none", contents |-> file]

(***************************************************************************)
(* save_data_to_github, in its two remote steps: get_contents, and then    *)
(* update_file or, on any exception so far, create_file.                   *)
(***************************************************************************)
save_write(file, fetched, content, netU, netC) ==
    LET upd == IF fetched.ok
               THEN update_file(file, content, fetched.sha, netU)
               ELSE [ok |-> FALSE, file |-> file]
    IN  IF upd.ok THEN upd ELSE create_file(file, content, netC)

(***************************************************************************)
(* The form handler up to the save: the new one-row frame is built with    *)
(* columns=df.columns from six values, which raises ValueError unless df   *)
(* has six columns, and is concatenated to df.                             *)
(***************************************************************************)
IndexOf(seq, x) == CHOOSE k \in DOMAIN seq : seq[k] = x

\* variant: the new row is built from the six raw columns and concatenated,
\* pd.concat filling the columns it lacks with NaN
nuevo_registro_raw(df, input) ==
    [raised |-> FALSE,
     df |-> DataFrame(df.columns,
              Append(df.rows, [c \in Range(df.columns) |->
                                 IF c \in Range(RawCols) THEN input[IndexOf(RawCols, c)] ELSE NaN]))]

nuevo_registro(df, input) ==
    IF Len(df.columns) # Len(input)
    THEN [raised |-> TRUE, df |-> df]
    ELSE [raised |-> FALSE,
          df |-> DataFrame(df.columns,
                   Append(df.rows, [c \in Range(df.columns) |-> input[IndexOf(df.columns, c)]]))]

(***************************************************************************)
(* State                                                                   *)
(***************************************************************************)
Sessions == 1 .. NumSessions

\* rows another tool may have left in the file
FileRows ==
    { Row("2024-01-01", "Press banca", 100, 5, 7, ""),
      Row("2024-01-08", "Press banca", 105, 5, 8, "ok"),
      Row("", "Sentadillas", 0, 8, 7, ""),
      Row("ayer", "Sentadillas", 120, 3, 9, "") }

RECURSIVE SeqsUpTo(_, _)
SeqsUpTo(S, n) ==
    IF n = 0 THEN {<<>>}
    ELSE LET shorter == SeqsUpTo(S, n - 1)
         IN  shorter \cup {Append(q, x) : q \in shorter, x \in S}

InitFiles == {NoFile} \cup {File(RawCols, rows) : rows \in SeqsUpTo(FileRows, MaxInitRows)}

\* what the form can submit: fecha, ejercicio, peso, reps, rpe, notas
FormInputs ==
    { <<1, "Press banca", 100, 5, 7, "">>,
      <<2, "Sentadillas", 0, 8, 7, "ok">> }

NoFetch == [ok |-> FALSE, sha |-> Sha(NoFile)]

NewRun(result, error) ==
    [pc |-> "load", df |-> EmptyDataFrame, error |-> error, contents |-> NoFile,
     fetched |-> NoFetch, result |-> result]

\* the run is over: what stays is the page with its messages
EndRun(result, error) == [NewRun(result, error) EXCEPT !.pc = "end"]

Init ==
    /\ remote \in InitFiles
    /\ sess = [s \in Sessions |-> NewRun("none", "none")]
    /\ mHist = <<EmptyDataFrame>>

(***************************************************************************)
(* One script run of a session: load (line 112), derive (line 113), the    *)
(* form (lines 116-150), the rest of the page.                             *)
(***************************************************************************)
\* df = load_data_from_github()
Load(s) ==
    /\ sess[s].pc = "load"
    /\ \E net \in Net :
         LET r == load_data_from_github(remote, net)
         IN  sess' = [sess EXCEPT ![s] =
                        [pc |-> "derive", df |-> r.df, error |-> r.error,
                         contents |-> r.contents, fetched |-> NoFetch, result |-> "none"]]
    /\ UNCHANGED <<remote, mHist>>

\* df = calcular_metricas(df)
Derive(s) ==
    /\ sess[s].pc = "derive"
    /\ sess' = [sess EXCEPT ![s].pc = "form", ![s].df = calcular_metricas(sess[s].df)]
    /\ UNCHANGED <<remote, mHist>>

\* the submit button was pressed: build the row, append it, and enter
\* save_data_to_github up to repo.get_contents; an uncaught ValueError ends the run
Submit(s) ==
    /\ sess[s].pc = "form"
    /\ \E input \in FormInputs, net \in Net :
         LET r == nuevo_registro(sess[s].df, input)
         IN  IF r.raised
             THEN sess' = [sess EXCEPT ![s] = EndRun("crashed", sess[s].error)]
             ELSE sess' = [sess EXCEPT ![s].pc = "write", ![s].df = r.df,
                                       ![s].fetched = get_contents(remote, net)]
    /\ UNCHANGED <<remote, mHist>>

\* the rest of save_data_to_github: update_file, or create_file after any
\* exception; True -> st.success and st.rerun(), False -> st.error
Write(s) ==
    /\ sess[s].pc = "write"
    /\ \E netU \in Net, netC \in Net :
         LET r == save_write(remote, sess[s].fetched, ToCsv(sess[s].df), netU, netC)
         IN  /\ remote' = r.file
             /\ sess' = [sess EXCEPT ![s] =
                           IF r.ok THEN NewRun("saved", sess[s].error)
                           ELSE EndRun("failed", sess[s].error)]
    /\ UNCHANGED mHist

\* the button was not pressed: the page is rendered and the run ends
NoSubmit(s) ==
    /\ sess[s].pc = "form"
    /\ sess' = [sess EXCEPT ![s] = EndRun(sess[s].result, sess[s].error)]
    /\ UNCHANGED <<remote, mHist>>

\* any interaction with the page runs the script again from the top
Rerun(s) ==
    /\ sess[s].pc = "end"
    /\ sess' = [sess EXCEPT ![s] = NewRun("none", "none")]
    /\ UNCHANGED <<remote, mHist>>

Next ==
    \E s \in Sessions :
        \/ Load(s)
        \/ Derive(s)
        \/ Submit(s)
        \/ Write(s)
        \/ NoSubmit(s)
        \/ Rerun(s)

Spec == Init /\ [][Next]_vars

(***************************************************************************)
(* The same program with one session and no other writer.                  *)
(***************************************************************************)
NextSingle ==
    \/ Load(1)
    \/ Derive(1)
    \/ Submit(1)
    \/ Write(1)
    \/ NoSubmit(1)
    \/ Rerun(1)

SpecSingle == Init /\ [][NextSingle]_vars

(***************************************************************************)
(* calcular_metricas on its own: a frame of up to MaxLen rows, in any      *)
(* order, and the results of calling the function on it again and again.   *)
(***************************************************************************)
MetricRows ==
    { Row(f, e, p, 5, 7, "") : f \in DOMAIN DateText, e \in {"Press banca", "Sentadillas"},
                               p \in {0, 100, 105} }

MaxCalls == 2

InitMetrics ==
    /\ remote = NoFile
    /\ sess = [s \in Sessions |-> NewRun("none", "none")]
    /\ mHist \in {<<DataFrame(RawCols, rows)>> : rows \in SeqsUpTo(MetricRows, MaxLen)}

CallMetrics ==
    /\ Len(mHist) <= MaxCalls
    /\ mHist' = Append(mHist, calcular_metricas(mHist[Len(mHist)]))
    /\ UNCHANGED <<remote, sess>>

NextMetrics == CallMetrics

SpecMetrics == InitMetrics /\ [][NextMetrics]_vars

(***************************************************************************)
(* Properties                                                              *)
(***************************************************************************)
\* a step of session s
Step(s) == sess'[s] # sess[s]

\* session s completes save_data_to_github in this step
SaveReturns(s) == sess[s].pc = "write" /\ Step(s)

SaveSucceeds(s) == SaveReturns(s) /\ sess'[s].result = "saved"

\* C1: when two sessions loaded the file at revision R and one of them has
\* saved since, the save of the other, which still holds what it loaded at R,
\* fails and leaves the remote file as it is.
C1_StaleSaveConflicts ==
    [][\A s \in Sessions :
         (/\ SaveReturns(s)
          /\ sess[s].error = "none"
          /\ sess[s].contents.exists
          /\ Sha(sess[s].contents) # Sha(remote))
         => (remote' = remote /\ sess'[s].result = "failed")]_vars

\* C2: the persisted file never has a derived column, in its header or in a row.
C2_OnlyRawColumnsPersisted ==
    remote.exists =>
        /\ Range(remote.header) \cap Range(DerivedCols) = {}
        /\ \A i \in DOMAIN remote.rows : DOMAIN remote.rows[i] \cap Range(DerivedCols) = {}

C2_Witness ==
    /\ remote.exists
    /\ \E s \in Sessions : sess[s].result = "saved"
    /\ \E t \in Sessions : Range(DerivedCols) \subseteq Range(sess[t].df.columns)

\* today's date, a day after every date of the model
Today == Len(DateText) + 1

BadDate(t) == t = "" \/ ~Parseable(t)

Coerced(t) ==
    [c \in DOMAIN t |->
        CASE c = "Fecha" -> IF BadDate(t[c]) THEN Today ELSE ParseDate(t[c])
          [] c = "Notas" -> IF t[c] = "" THEN NotasNaN ELSE t[c]
          [] OTHER -> t[c]]

\* C3: load of an existing file of n rows returns n rows: a row with a missing
\* or unparseable date gets today's date, every other row is decoded as it is.
C3_LoadKeepsEveryRow ==
    \A s \in Sessions :
        (sess[s].pc = "derive" /\ sess[s].contents.exists)
        => sess[s].df.rows =
             [i \in DOMAIN sess[s].contents.rows |-> Coerced(sess[s].contents.rows[i])]

\* C4: a load that finds no file returns the empty frame with the six raw
\* columns and the run goes on without an exception; a submission of that run
\* that finds the file still absent and saves, creates it with its one row.
C4_NotFoundState ==
    \A s \in Sessions :
        sess[s].error = "NotFound"
        => /\ sess[s].result # "crashed"
           /\ sess[s].df.columns = RawCols
           /\ sess[s].pc \in {"derive", "form"} => sess[s].df = EmptyDataFrame

C4_NotFoundIsEmpty ==
    /\ []C4_NotFoundState
    /\ [][\A s \in Sessions :
            (SaveSucceeds(s) /\ sess[s].error = "NotFound" /\ ~remote.exists)
            => (/\ remote'.exists
                /\ remote'.header = RawCols
                /\ Len(remote'.rows) = 1
                /\ remote' = ToCsv(sess[s].df))]_vars

C4_Witness ==
    \E s \in Sessions :
        /\ sess[s].error = "NotFound"
        /\ sess[s].result = "saved"
        /\ remote.exists
        /\ Len(remote.rows) = 1

\* the entry j comes before the entry i of the same exercise in ascending date
\* order (entries of the same date in the order of the rows)
ChronBefore(df, j, i) ==
    /\ df.rows[j]["Ejercicio"] = df.rows[i]["Ejercicio"]
    /\ \/ df.rows[j]["Fecha"] < df.rows[i]["Fecha"]
       \/ df.rows[j]["Fecha"] = df.rows[i]["Fecha"] /\ j < i

ChronPrev(df, i) ==
    LET B == {j \in DOMAIN df.rows : ChronBefore(df, j, i)}
    IN  IF B = {} THEN 0
        ELSE CHOOSE j \in B : \A k \in B : k = j \/ ChronBefore(df, k, j)

\* C5: the progress of an entry is the percent change of its 1RM against the
\* entry of the same exercise just before it in date order, whatever the order
\* of the rows; the first entry of an exercise has an undefined progress.
C5_ProgressIsChronological ==
    Len(mHist) >= 2 =>
        LET out == mHist[2]
        IN  \A i \in DOMAIN out.rows :
              LET p == ChronPrev(out, i)
              IN  out.rows[i]["Progreso"] =
                    IF p = 0 THEN NaN
                    ELSE FMul(FSub(FDiv(out.rows[i]["1RM"], out.rows[p]["1RM"]), Num(1)),
                              Num(Percent))

\* C6: calcular_metricas leaves the raw columns and the order of the rows as
\* they are, gives the same frame when called again on its result, and
\* returns the empty frame for the empty frame.
C6_DeriveIdempotent ==
    /\ Len(mHist) >= 2 =>
          /\ RawRows(mHist[2]) = RawRows(mHist[1])
          /\ mHist[1].rows = <<>> => mHist[2] = mHist[1]
    /\ \A k \in 2 .. Len(mHist) - 1 : mHist[k + 1] = mHist[k]

C6_Witness ==
    /\ Len(mHist) >= 3
    /\ Len(mHist[1].rows) >= 2
    /\ \E i \in DOMAIN mHist[3].rows : mHist[3].rows[i]["Volumen"] > 0

\* C7: in a group whose maximum weight is 0 every intensity is NaN; in a group
\* whose maximum weight is m > 0 the intensity of an entry is its weight / m.
C7_Intensity ==
    Len(mHist) >= 2 =>
        LET out == mHist[2]
        IN  \A i \in DOMAIN out.rows :
              \A m \in {out.rows[j]["Peso (kg)"] : j \in DOMAIN out.rows} :
                 (/\ \E j \in DOMAIN out.rows :
                        /\ out.rows[j]["Ejercicio"] = out.rows[i]["Ejercicio"]
                        /\ out.rows[j]["Peso (kg)"] = m
                  /\ \A j \in DOMAIN out.rows :
                        out.rows[j]["Ejercicio"] = out.rows[i]["Ejercicio"]
                        => out.rows[j]["Peso (kg)"] <= m)
                 => out.rows[i]["Intensidad"] =
                       IF m = 0 THEN NaN ELSE Frac(out.rows[i]["Peso (kg)"], m)

C7_Witness ==
    /\ Len(mHist) >= 2
    /\ \E i, j, k \in DOMAIN mHist[2].rows :
          /\ i # j
          /\ mHist[2].rows[i]["Ejercicio"] = mHist[2].rows[j]["Ejercicio"]
          /\ mHist[2].rows[i]["Peso (kg)"] = 0
          /\ mHist[2].rows[j]["Peso (kg)"] = 0
          /\ mHist[2].rows[k]["Ejercicio"] # mHist[2].rows[i]["Ejercicio"]
          /\ mHist[2].rows[k]["Peso (kg)"] > 0
          /\ IsNaN(mHist[2].rows[i]["Intensidad"])
          /\ mHist[2].rows[k]["Intensidad"] = Num(1)

\* the form was submitted in this step (the run neither stays at the form nor
\* ends with the rest of the page)
Submitted(s) ==
    /\ sess[s].pc = "form"
    /\ Step(s)
    /\ ~(sess'[s].pc = "end" /\ sess'[s].result = sess[s].result)

\* C8: every submission appends exactly one raw row with the submitted values
\* to df, whether df was empty or not, and attempts the save; a save that
\* succeeds leaves the rows of df, the new row last, in the remote file.
C8_SubmitAppendsAndSaves ==
    [][\A s \in Sessions :
         /\ Submitted(s)
            => /\ sess'[s].pc = "write"
               /\ Len(sess'[s].df.rows) = Len(sess[s].df.rows) + 1
               /\ SubSeq(sess'[s].df.rows, 1, Len(sess[s].df.rows)) = sess[s].df.rows
               /\ \E input \in FormInputs :
                     RawPart(sess'[s].df.rows[Len(sess'[s].df.rows)])
                        = [c \in Range(RawCols) |-> input[IndexOf(RawCols, c)]]
         /\ SaveSucceeds(s)
            => remote'.rows = [i \in DOMAIN sess[s].df.rows |-> EncodeRow(sess[s].df.rows[i])]
      ]_vars

\* C9: the caller can tell a transient failure from NotFound and from
\* Conflict: a load that failed transiently does not return what a load of an
\* absent file returns, and a save rejected for a stale sha reports a conflict.
C9_LoadOutcome ==
    \A s \in Sessions :
        (sess[s].pc = "derive" /\ sess[s].error = "Transient")
        => sess[s].df # load_data_from_github(NoFile, "ok").df

C9_FailuresDistinguished ==
    /\ []C9_LoadOutcome
    /\ [][\A s \in Sessions :
            (SaveReturns(s) /\ sess[s].fetched.ok /\ sess[s].fetched.sha # Sha(remote))
            => sess'[s].result = "conflict"]_vars

\* C10: with one session and no other writer, every row of the remote file
\* before a successful save is in the remote file after it.
C10_SaveKeepsPersistedRows ==
    [][SaveSucceeds(1)
       => \A i \in DOMAIN remote.rows :
             \E j \in DOMAIN remote'.rows : remote'.rows[j] = remote.rows[i]]_vars

====
